---- MODULE Spec2Model ----
(***************************************************************************)
(* Model of app.py: a Streamlit script that normalizes free text           *)
(* (preprocess_text / basic_preprocess), feeds it to a pretrained          *)
(* classifier (predict_sentiment) and renders the result (main).           *)
(*                                                                         *)
(* A Python str is modelled as a sequence of one-character strings, so the *)
(* regular expressions and split/join of the source are computed character *)
(* by character.  A Python value is a record [type, chars]; type "str"     *)
(* carries the characters, any other type carries none.                    *)
(***************************************************************************)
EXTENDS Integers, Sequences, FiniteSets, TLC

\* ------------------------------------------------------------------ bounds
MaxPieces == 3
MaxRuns == 3
ProbScale == 4

\* ------------------------------------------------------- Python str model
LowerLetters ==
    <<"a","b","c","d","e","f","g","h","i","j","k","l","m",
      "n","o","p","q","r","s","t","u","v","w","x","y","z">>

UpperLetters ==
    <<"A","B","C","D","E","F","G","H","I","J","K","L","M",
      "N","O","P","Q","R","S","T","U","V","W","X","Y","Z">>

Range(f) == { f[i] : i \in DOMAIN f }

\* the class [a-zA-Z] of the regular expression
IsLetter(c) == c \in Range(LowerLetters) \cup Range(UpperLetters)

\* the class \s of the regular expression, also what str.split() splits on
IsSpace(c) == c \in {" ", "\t", "\n", "\r"}

LowerChar(c) ==
    IF \E i \in DOMAIN UpperLetters : UpperLetters[i] = c
    THEN LowerLetters[CHOOSE i \in DOMAIN UpperLetters : UpperLetters[i] = c]
    ELSE c

\* text.lower()
Lower(s) == [i \in DOMAIN s |-> LowerChar(s[i])]

\* mutant of StripNonLetters: the character class also lets digits through
StripNonLettersKeepDigits(s) ==
    SelectSeq(s, LAMBDA c : IsLetter(c) \/ IsSpace(c)
                            \/ c \in {"0","1","2","3","4","5","6","7","8","9"})

\* re.sub(r'[^a-zA-Z\s]', '', text)
StripNonLetters(s) == SelectSeq(s, LAMBDA c : IsLetter(c) \/ IsSpace(c))

\* re.sub(r'\s+', ' ', text): every maximal run of whitespace becomes one " "
RECURSIVE CollapseSpaces(_)
CollapseSpaces(s) ==
    IF s = <<>> THEN <<>>
    ELSE IF IsSpace(Head(s))
         THEN IF Len(s) > 1 /\ IsSpace(s[2])
              THEN CollapseSpaces(Tail(s))
              ELSE <<" ">> \o CollapseSpaces(Tail(s))
         ELSE <<Head(s)>> \o CollapseSpaces(Tail(s))

RECURSIVE LStrip(_)
LStrip(s) == IF s # <<>> /\ IsSpace(Head(s)) THEN LStrip(Tail(s)) ELSE s

RECURSIVE RStrip(_)
RStrip(s) ==
    IF s # <<>> /\ IsSpace(s[Len(s)]) THEN RStrip(SubSeq(s, 1, Len(s) - 1)) ELSE s

\* str.strip()
Strip(s) == RStrip(LStrip(s))

\* the three cleaning statements shared by both normalizers
CleanText(s) == Strip(CollapseSpaces(StripNonLetters(Lower(s))))

\* str.split(): the maximal runs of non-whitespace, in order
RECURSIVE SplitFrom(_, _)
SplitFrom(s, cur) ==
    IF s = <<>> THEN (IF cur = <<>> THEN <<>> ELSE <<cur>>)
    ELSE IF IsSpace(Head(s))
         THEN (IF cur = <<>> THEN <<>> ELSE <<cur>>) \o SplitFrom(Tail(s), <<>>)
         ELSE SplitFrom(Tail(s), Append(cur, Head(s)))

Split(s) == SplitFrom(s, <<>>)

\* ' '.join(tokens)
RECURSIVE Join(_)
Join(tokens) ==
    IF tokens = <<>> THEN <<>>
    ELSE IF Len(tokens) = 1 THEN tokens[1]
    ELSE tokens[1] \o <<" ">> \o Join(Tail(tokens))

\* a token as one string, for membership in a stopword set
RECURSIVE Word(_)
Word(t) == IF t = <<>> THEN "" ELSE Head(t) \o Word(Tail(t))

\* ---------------------------------------------------------- Python values
PyStr(chars) == [type |-> "str", chars |-> chars]

PyNone == [type |-> "NoneType", chars |-> <<>>]

PyInt == [type |-> "int", chars |-> <<>>]

\* isinstance(text, str)
IsStr(v) == v.type = "str"

\* ------------------------------------------------------------- stopwords
\* the literal set of basic_preprocess; entries with an apostrophe can never
\* equal a token, because the cleaning removes the apostrophe first
basic_stopwords ==
    {"i", "me", "my", "myself", "we", "our", "ours", "ourselves", "you",
     "you're", "you've", "you'll", "you'd", "your", "yours", "yourself",
     "yourselves", "he", "him", "his", "himself", "she", "she's", "her",
     "hers", "herself", "it", "it's", "its", "itself", "they", "them",
     "their", "theirs", "themselves", "what", "which", "who", "whom",
     "this", "that", "that'll", "these", "those", "am", "is", "are", "was",
     "were", "be", "been", "being", "have", "has", "had", "having", "do",
     "does", "did", "doing", "a", "an", "the", "and", "but", "if", "or",
     "because", "as", "until", "while", "of", "at", "by", "for", "with",
     "about", "against", "between", "into", "through", "during", "before",
     "after", "above", "below", "to", "from", "up", "down", "in", "out",
     "on", "off", "over", "under", "again", "further", "then", "once"}

\* set(stopwords.words('english')): the NLTK English list, which starts with
\* the words above and goes on
stop_words ==
    basic_stopwords \cup
    {"here", "there", "when", "where", "why", "how", "all", "any", "both",
     "each", "few", "more", "most", "other", "some", "such", "no", "nor",
     "not", "only", "own", "same", "so", "than", "too", "very", "s", "t",
     "can", "will", "just", "don", "don't", "should", "should've", "now",
     "d", "ll", "m", "o", "re", "ve", "y", "ain", "aren", "aren't",
     "couldn", "couldn't", "didn", "didn't", "doesn", "doesn't", "hadn",
     "hadn't", "hasn", "hasn't", "haven", "haven't", "isn", "isn't", "ma",
     "mightn", "mightn't", "mustn", "mustn't", "needn", "needn't", "shan",
     "shan't", "shouldn", "shouldn't", "wasn", "wasn't", "weren",
     "weren't", "won", "won't", "wouldn", "wouldn't"}

\* mutant of RemoveStopwords: only the first stopword is taken out
RECURSIVE RemoveFirstStopword(_, _)
RemoveFirstStopword(tokens, stopset) ==
    IF tokens = <<>> THEN <<>>
    ELSE IF Word(Head(tokens)) \in stopset THEN Tail(tokens)
    ELSE <<Head(tokens)>> \o RemoveFirstStopword(Tail(tokens), stopset)

\* mutant of RemoveStopwords: the membership test is inverted
KeepStopwords(tokens, stopset) ==
    SelectSeq(tokens, LAMBDA t : Word(t) \in stopset)

\* [token for token in tokens if token not in stopset]
RemoveStopwords(tokens, stopset) ==
    SelectSeq(tokens, LAMBDA t : Word(t) \notin stopset)

\* ---------------------------------------------------------- word_tokenize
\* nltk.tokenize.word_tokenize on a cleaned text (letters a-z and single
\* spaces): the Treebank tokenizer splits on whitespace and breaks these
\* contractions in two when they stand as a whole word
Contractions ==
    { << <<"c","a","n">>, <<"n","o","t">> >>,
      << <<"g","i","m">>, <<"m","e">> >>,
      << <<"g","o","n">>, <<"n","a">> >>,
      << <<"g","o","t">>, <<"t","a">> >>,
      << <<"l","e","m">>, <<"m","e">> >>,
      << <<"w","a","n">>, <<"n","a">> >> }

TokenizeWord(t) ==
    IF \E c \in Contractions : t = c[1] \o c[2]
    THEN CHOOSE c \in Contractions : t = c[1] \o c[2]
    ELSE <<t>>

RECURSIVE Flatten(_)
Flatten(ss) == IF ss = <<>> THEN <<>> ELSE Head(ss) \o Flatten(Tail(ss))

word_tokenize(s) ==
    LET words == Split(s)
    IN  Flatten([i \in DOMAIN words |-> TokenizeWord(words[i])])

\* ------------------------------------------------------------ normalizers
\* basic_preprocess(text): always returns a str
basic_preprocess(text) ==
    IF ~IsStr(text) THEN PyStr(<<>>)
    ELSE LET tokens == Split(CleanText(text.chars))
         IN  PyStr(Join(RemoveStopwords(tokens, basic_stopwords)))

\* the points of the try block of preprocess_text that can raise
NltkFaults == {"none", "import", "word_tokenize", "stopwords"}

\* the try block of preprocess_text: either it returns a value, or it raises
\* at `fault`; `text` is the local variable text as the except clause sees it
EnrichedPath(text, fault) ==
    IF fault = "import"
    THEN [exc |-> TRUE, text |-> text, value |-> PyNone]
    ELSE IF ~IsStr(text)
    THEN [exc |-> FALSE, text |-> text, value |-> PyStr(<<>>)]
    ELSE LET cleaned == CleanText(text.chars)
         IN  IF fault \in {"word_tokenize", "stopwords"}
             THEN [exc |-> TRUE, text |-> PyStr(cleaned), value |-> PyNone]
             ELSE [exc |-> FALSE, text |-> PyStr(cleaned),
                   value |-> PyStr(Join(RemoveStopwords(word_tokenize(cleaned),
                                                        stop_words)))]

\* mutant of preprocess_text: no except clause around the NLTK path
preprocess_text_uncaught(text, ready, fault) ==
    IF ~ready
    THEN [raised |-> FALSE, value |-> basic_preprocess(text),
          via |-> "basic", warned |-> FALSE]
    ELSE LET r == EnrichedPath(text, fault)
         IN  IF r.exc
             THEN [raised |-> TRUE, value |-> PyNone,
                   via |-> "none", warned |-> FALSE]
             ELSE [raised |-> FALSE, value |-> r.value,
                   via |-> "NLTK", warned |-> FALSE]

\* mutant of preprocess_text: nltk_ready is not consulted
preprocess_text_ignores_flag(text, ready, fault) ==
    LET r == EnrichedPath(text, fault)
    IN  IF r.exc
        THEN [raised |-> FALSE, value |-> basic_preprocess(r.text),
              via |-> "basic", warned |-> TRUE]
        ELSE [raised |-> FALSE, value |-> r.value,
              via |-> "NLTK", warned |-> FALSE]

\* the body of preprocess_text(text), `ready` being the global nltk_ready; the result
\* records whether an exception left the function, the returned value, the
\* strategy that produced it and whether st.warning was shown
preprocess_text(text, ready, fault) ==
    IF ~ready
    THEN [raised |-> FALSE, value |-> basic_preprocess(text),
          via |-> "basic", warned |-> FALSE]
    ELSE LET r == EnrichedPath(text, fault)
         IN  IF r.exc
             THEN [raised |-> FALSE, value |-> basic_preprocess(r.text),
                   via |-> "basic", warned |-> TRUE]
             ELSE [raised |-> FALSE, value |-> r.value,
                   via |-> "NLTK", warned |-> FALSE]

\* st.cache_data around preprocess_text: the body runs on a miss and its
\* return value is stored under the argument; a hit returns the stored value
NoEntry == [hit |-> FALSE, raised |-> FALSE, value |-> PyStr(<<>>),
            via |-> "none", warned |-> FALSE]

cached_preprocess_text(cache, text, ready, fault) ==
    IF cache[text].hit
    THEN [res |-> [raised |-> cache[text].raised, value |-> cache[text].value,
                   via |-> cache[text].via, warned |-> cache[text].warned],
          cache |-> cache]
    ELSE LET r == preprocess_text(PyStr(text), ready, fault)
         IN  [res |-> r,
              cache |-> IF r.raised THEN cache
                        ELSE [cache EXCEPT ![text] =
                                 [hit |-> TRUE, raised |-> FALSE,
                                  value |-> r.value, via |-> r.via,
                                  warned |-> r.warned]]]

\* ------------------------------------------------------ cached resources
\* st.cache_resource around setup_nltk_cloud: the downloads run once per
\* process; True when both return, False when one raises
setup_nltk_cloud(cache, downloads_ok) ==
    IF cache.set
    THEN [value |-> cache.value, cache |-> cache, ran |-> FALSE]
    ELSE [value |-> downloads_ok,
          cache |-> [set |-> TRUE, value |-> downloads_ok], ran |-> TRUE]

\* how the two from_pretrained calls of load_distilbert_model can end
LoadOutcomes == {"ok", "model_fails", "tokenizer_fails"}

\* mutant of load_distilbert_model: a failed load is not cached
load_distilbert_model_forgets_failure(cache, outcome) ==
    IF cache.set
    THEN [model |-> cache.model, tokenizer |-> cache.tokenizer,
          cache |-> cache, ran |-> FALSE]
    ELSE LET m == IF outcome = "ok" THEN "model" ELSE "None"
             t == IF outcome = "ok" THEN "tokenizer" ELSE "None"
         IN  [model |-> m, tokenizer |-> t,
              cache |-> IF outcome = "ok"
                        THEN [set |-> TRUE, model |-> m, tokenizer |-> t]
                        ELSE cache,
              ran |-> TRUE]

\* st.cache_resource around load_distilbert_model: from_pretrained runs once
\* per process; (model, tokenizer) on success, (None, None) when either load
\* raises, and the returned pair is cached in both cases
load_distilbert_model(cache, outcome) ==
    IF cache.set
    THEN [model |-> cache.model, tokenizer |-> cache.tokenizer,
          cache |-> cache, ran |-> FALSE]
    ELSE LET m == IF outcome = "ok" THEN "model" ELSE "None"
             t == IF outcome = "ok" THEN "tokenizer" ELSE "None"
         IN  [model |-> m, tokenizer |-> t,
              cache |-> [set |-> TRUE, model |-> m, tokenizer |-> t],
              ran |-> TRUE]

\* --------------------------------------------------------------- adapter
\* where the model invocation of predict_sentiment can raise
ModelFaults == {"none", "tokenizer", "model"}

\* mutant of ArgMax: the last maximum
ArgMaxLast(probs) == IF probs[2] >= probs[1] THEN 1 ELSE 0

\* np.argmax(probs) over the two classes: the first maximum
ArgMax(probs) == IF probs[2] > probs[1] THEN 1 ELSE 0

\* predict_sentiment, lines 107-120: encode, run the model, softmax, argmax.
\* p1 is the softmax probability of class 1 in units of 1/ProbScale, class 0
\* has the rest.  `raised` says that an exception left the function, in
\* which case nothing is returned
invoke_model(processed, mfault, p1) ==
    IF mfault = "tokenizer"
    THEN [raised |-> TRUE, label |-> "none", confidence |-> 0,
          processed |-> processed, tokenizer_called |-> TRUE,
          model_called |-> FALSE, probs |-> <<0, 0>>]
    ELSE IF mfault = "model"
    THEN [raised |-> TRUE, label |-> "none", confidence |-> 0,
          processed |-> processed, tokenizer_called |-> TRUE,
          model_called |-> TRUE, probs |-> <<0, 0>>]
    ELSE LET probs == <<ProbScale - p1, p1>>
             prediction == ArgMax(probs)
         IN  [raised |-> FALSE,
              label |-> IF prediction = 1 THEN "Positive"
                        ELSE "Negative/Neutral",
              confidence |-> probs[prediction + 1],
              processed |-> processed,
              tokenizer_called |-> TRUE, model_called |-> TRUE,
              probs |-> probs]

\* mutant of predict_sentiment: no test for an empty processed_text
predict_sentiment_unguarded(pre, mfault, p1) ==
    invoke_model(pre.value.chars, mfault, p1)

\* predict_sentiment(text, model, tokenizer), `pre` being what its call of
\* preprocess_text gave
predict_sentiment(pre, mfault, p1) ==
    IF pre.raised
    THEN [raised |-> TRUE, label |-> "none", confidence |-> 0,
          processed |-> <<>>, tokenizer_called |-> FALSE,
          model_called |-> FALSE, probs |-> <<0, 0>>]
    ELSE IF pre.value.chars = <<>>
    THEN [raised |-> FALSE, label |-> "Unknown", confidence |-> 0,
          processed |-> <<>>, tokenizer_called |-> FALSE,
          model_called |-> FALSE, probs |-> <<0, 0>>]
    ELSE invoke_model(pre.value.chars, mfault, p1)

\* ------------------------------------------------------------ input sets
\* pieces that texts are concatenated from: a capitalised stopword, a word
\* only the NLTK list stops, a contraction word_tokenize splits, a plain
\* word, two kinds of whitespace, and non-letters
Pieces ==
    { <<"T","h","e">>, <<"n","o","t">>, <<"g","o","n","n","a">>,
      <<"b","e","a","t">>, <<" ">>, <<"\t">>, <<"3","!">> }

\* "The Q3 EARNINGS beat expectations!!! 2024"
Scenario ==
    <<"T","h","e"," ","Q","3"," ","E","A","R","N","I",
      "N","G","S"," ","b","e","a","t"," ","e","x","p",
      "e","c","t","a","t","i","o","n","s","!","!","!",
      " ","2","0","2","4">>

Texts ==
    { Flatten(ps) : ps \in UNION { [1..n -> Pieces] : n \in 0..MaxPieces } }
        \cup {Scenario}

\* what a caller can pass to preprocess_text / predict_sentiment
Args == { PyStr(t) : t \in Texts } \cup {PyNone, PyInt}

\* what the user can leave in st.text_area
UITexts == { <<>>, <<" ">>, <<"n","o","t">>, <<"b","e","a","t">> }

\* ----------------------------------------------------------------- state
VARIABLES
    pc,           \* position of the script run: idle between runs
    runs,         \* script runs started in this process
    nltk_cache,   \* st.cache_resource entry of setup_nltk_cloud
    nltk_ready,   \* the module global nltk_ready
    model_cache,  \* st.cache_resource entry of load_distilbert_model
    data_cache,   \* st.cache_data entries of preprocess_text
    user_input,   \* value of the text area in this run
    result,       \* what predict_sentiment did in this run
    shown,        \* the result block rendered in this run
    messages,     \* st.error / st.warning / exception boxes of this run
    stats,        \* history: how often each step has run in the process
    arg,          \* function-level run: the argument passed
    mode,         \* function-level run: nltk_ready and the fault of the call
    step,         \* function-level run: which call has returned
    out1,         \* preprocess_text(arg)
    out2,         \* preprocess_text(out1)
    pred          \* predict_sentiment(arg, model, tokenizer)

appVars == <<pc, runs, nltk_cache, nltk_ready, model_cache, data_cache,
             user_input, result, shown, messages, stats>>

fnVars == <<arg, mode, step, out1, out2, pred>>

vars == <<appVars, fnVars>>

NoResult == [called |-> FALSE, raised |-> FALSE, label |-> "none",
             confidence |-> 0, processed |-> <<>>,
             tokenizer_called |-> FALSE, model_called |-> FALSE,
             probs |-> <<0, 0>>, invocation_raised |-> FALSE]

NoShown == [displayed |-> FALSE, sentiment |-> "none", confidence |-> 0,
            method |-> "none", text |-> <<>>, via |-> "none"]

NoOut == [raised |-> FALSE, value |-> PyStr(<<>>), via |-> "none",
          warned |-> FALSE]

NoPred == [raised |-> FALSE, label |-> "none", confidence |-> 0,
           processed |-> <<>>, tokenizer_called |-> FALSE,
           model_called |-> FALSE, probs |-> <<0, 0>>]

\* --------------------------------------------------- the Streamlit script
AppInit ==
    /\ pc = "idle"
    /\ runs = 0
    /\ nltk_cache = [set |-> FALSE, value |-> FALSE]
    /\ nltk_ready = FALSE
    /\ model_cache = [set |-> FALSE, model |-> "None", tokenizer |-> "None"]
    /\ data_cache = [t \in UITexts |-> NoEntry]
    /\ user_input = <<>>
    /\ result = NoResult
    /\ shown = NoShown
    /\ messages = {}
    /\ stats = [load_attempts |-> 0, load_failures |-> 0, inputs |-> 0,
                predict_calls |-> 0, model_calls |-> 0]

\* Streamlit runs the script from the top: at start and on every interaction
Rerun ==
    /\ pc = "idle"
    /\ runs < MaxRuns
    /\ pc' = "module"
    /\ runs' = runs + 1
    /\ result' = NoResult
    /\ shown' = NoShown
    /\ messages' = {}
    /\ UNCHANGED <<nltk_cache, nltk_ready, model_cache, data_cache,
                   user_input, stats>>
    /\ UNCHANGED fnVars

\* line 29: nltk_ready = setup_nltk_cloud()
SetupNltk ==
    /\ pc = "module"
    /\ \E downloads_ok \in BOOLEAN :
         LET r == setup_nltk_cloud(nltk_cache, downloads_ok)
         IN  /\ nltk_cache' = r.cache
             /\ nltk_ready' = r.value
             /\ messages' = IF r.value THEN messages
                            ELSE messages \cup {"Failed to download NLTK resources"}
    /\ pc' = "main"
    /\ UNCHANGED <<runs, model_cache, data_cache, user_input, result, shown,
                   stats>>
    /\ UNCHANGED fnVars

\* main, lines 128-131: load the model; st.stop() when either handle is None
LoadModel ==
    /\ pc = "main"
    /\ \E outcome \in LoadOutcomes :
         LET r == load_distilbert_model(model_cache, outcome)
             failed == r.model = "None" \/ r.tokenizer = "None"
         IN  /\ model_cache' = r.cache
             /\ stats' = [stats EXCEPT
                   !.load_attempts = @ + (IF r.ran THEN 1 ELSE 0),
                   !.load_failures = @ + (IF r.ran /\ failed THEN 1 ELSE 0)]
             /\ messages' = IF failed
                            THEN messages \cup {"Error loading model",
                                                "Failed to load the model"}
                            ELSE messages
             /\ pc' = IF failed THEN "idle" ELSE "widgets"
    /\ UNCHANGED <<runs, nltk_cache, nltk_ready, data_cache, user_input,
                   result, shown>>
    /\ UNCHANGED fnVars

\* main, lines 134-138 and 157-158: the text area and the button
Widgets ==
    /\ pc = "widgets"
    /\ \E text \in UITexts, clicked \in BOOLEAN :
         /\ user_input' = text
         /\ pc' = IF clicked /\ text # <<>> THEN "predict" ELSE "idle"
         /\ messages' = IF clicked /\ text = <<>>
                        THEN messages \cup {"Please enter some text to analyze."}
                        ELSE messages
    /\ stats' = [stats EXCEPT !.inputs = @ + 1]
    /\ UNCHANGED <<runs, nltk_cache, nltk_ready, model_cache, data_cache,
                   result, shown>>
    /\ UNCHANGED fnVars

\* main, line 140: sentiment, confidence = predict_sentiment(...); an
\* exception that leaves predict_sentiment ends the run in an exception box
Predict ==
    /\ pc = "predict"
    /\ \E fault \in NltkFaults, mfault \in ModelFaults, p1 \in 0..ProbScale :
         LET c == cached_preprocess_text(data_cache, user_input, nltk_ready,
                                         fault)
             r == predict_sentiment(c.res, mfault, p1)
         IN  /\ data_cache' = c.cache
             /\ result' = [called |-> TRUE, raised |-> r.raised,
                           label |-> r.label, confidence |-> r.confidence,
                           processed |-> r.processed,
                           tokenizer_called |-> r.tokenizer_called,
                           model_called |-> r.model_called,
                           probs |-> r.probs,
                           invocation_raised |->
                               r.tokenizer_called /\ mfault # "none"]
             /\ stats' = [stats EXCEPT
                   !.predict_calls = @ + 1,
                   !.model_calls = @ + (IF r.model_called THEN 1 ELSE 0)]
             /\ messages' = (IF c.res.warned
                             THEN messages \cup {"NLTK processing failed"}
                             ELSE messages)
                            \cup (IF r.raised THEN {"uncaught exception"}
                                  ELSE {})
             /\ pc' = IF r.raised THEN "idle" ELSE "render"
    /\ UNCHANGED <<runs, nltk_cache, nltk_ready, model_cache, user_input,
                   shown>>
    /\ UNCHANGED fnVars

\* main, lines 143-156: the sentiment, the confidence, and the expander with
\* the method label and preprocess_text(user_input)
Render ==
    /\ pc = "render"
    /\ \E fault \in NltkFaults :
         LET c == cached_preprocess_text(data_cache, user_input, nltk_ready,
                                         fault)
         IN  /\ data_cache' = c.cache
             /\ shown' = [displayed |-> TRUE, sentiment |-> result.label,
                          confidence |-> result.confidence,
                          method |-> IF nltk_ready THEN "NLTK"
                                     ELSE "basic (fallback)",
                          text |-> c.res.value.chars, via |-> c.res.via]
             /\ messages' = IF c.res.warned
                            THEN messages \cup {"NLTK processing failed"}
                            ELSE messages
    /\ pc' = "idle"
    /\ UNCHANGED <<runs, nltk_cache, nltk_ready, model_cache, user_input,
                   result, stats>>
    /\ UNCHANGED fnVars

\* ------------------------------------------------ the functions, called
FnOff ==
    /\ arg = PyNone
    /\ mode = [ready |-> FALSE, fault |-> "none"]
    /\ step = "off"
    /\ out1 = NoOut
    /\ out2 = NoOut
    /\ pred = NoPred

FnInit ==
    /\ arg \in Args
    /\ mode \in [ready : BOOLEAN, fault : NltkFaults]
    /\ step = "start"
    /\ out1 = NoOut
    /\ out2 = NoOut
    /\ pred = NoPred

\* preprocess_text(arg)
CallPreprocess ==
    /\ step = "start"
    /\ out1' = preprocess_text(arg, mode.ready, mode.fault)
    /\ step' = "normalized"
    /\ UNCHANGED <<arg, mode, out2, pred>>
    /\ UNCHANGED appVars

\* preprocess_text(preprocess_text(arg)), the mode being the same
CallPreprocessAgain ==
    /\ step = "normalized"
    /\ ~out1.raised
    /\ out2' = preprocess_text(out1.value, mode.ready, mode.fault)
    /\ step' = "renormalized"
    /\ UNCHANGED <<arg, mode, out1, pred>>
    /\ UNCHANGED appVars

\* predict_sentiment(arg, model, tokenizer)
CallPredict ==
    /\ step = "start"
    /\ \E mfault \in ModelFaults, p1 \in 0..ProbScale :
         /\ out1' = preprocess_text(arg, mode.ready, mode.fault)
         /\ pred' = predict_sentiment(out1', mfault, p1)
    /\ step' = "predicted"
    /\ UNCHANGED <<arg, mode, out2>>
    /\ UNCHANGED appVars

\* -------------------------------------------------------- specifications
Init == AppInit /\ FnOff

Next ==
    \/ Rerun
    \/ SetupNltk
    \/ LoadModel
    \/ Widgets
    \/ Predict
    \/ Render

Spec == Init /\ [][Next]_vars

InitFn == AppInit /\ FnInit

NextFn ==
    \/ CallPreprocess
    \/ CallPreprocessAgain
    \/ CallPredict

SpecFn == InitFn /\ [][NextFn]_vars

\* ------------------------------------------------------------ properties
\* xs is a subsequence of ys: the items of xs occur in ys in the same order
RECURSIVE IsSubsequence(_, _)
IsSubsequence(xs, ys) ==
    IF xs = <<>> THEN TRUE
    ELSE IF ys = <<>> THEN FALSE
    ELSE IF Head(xs) = Head(ys) THEN IsSubsequence(Tail(xs), Tail(ys))
    ELSE IsSubsequence(xs, Tail(ys))

HasLetter(s) == \E i \in DOMAIN s : IsLetter(s[i])

Returned == step \in {"normalized", "renormalized", "predicted"}

\* C1: preprocess_text never lets an exception out: whatever the argument
\* (str or not), whether nltk_ready is set, and wherever the NLTK path raises,
\* the call returns, and returns a str
C1_NormalizerNeverRaises ==
    Returned => ~out1.raised /\ out1.value.type = "str"

\* C1 witness: the NLTK path raised inside a call on a non-empty text and the
\* call still returned a str
C1_Witness ==
    /\ step = "normalized"
    /\ mode.ready /\ mode.fault = "word_tokenize"
    /\ out1.warned /\ ~out1.raised
    /\ out1.value.type = "str" /\ out1.value.chars # <<>>

\* C2: when the tokenizer or the model raises inside predict_sentiment, the
\* function catches it, an error is shown, and ("Error", 0.0) is returned
C2_InferenceFailureGivesSentinel ==
    result.invocation_raised =>
        /\ ~result.raised
        /\ result.label = "Error"
        /\ result.confidence = 0
        /\ "uncaught exception" \notin messages

\* C3: when the normalized text is empty, predict_sentiment returns
\* ("Unknown", 0.0) and calls neither the tokenizer nor the model
C3_EmptyShortCircuits ==
    (step = "predicted" /\ out1.value.chars = <<>>) =>
        /\ ~pred.raised
        /\ pred.label = "Unknown"
        /\ pred.confidence = 0
        /\ ~pred.tokenizer_called
        /\ ~pred.model_called

\* C3 witness: a text of letters whose every token the NLTK list stops
C3_Witness ==
    /\ step = "predicted"
    /\ arg.type = "str" /\ HasLetter(arg.chars)
    /\ out1.via = "NLTK" /\ out1.value.chars = <<>>
    /\ pred.label = "Unknown"

\* C4: once a load of the model or tokenizer has failed, the process never
\* loads again, the failed pair stays cached, and no run gets as far as the
\* widgets: no input is taken, predict_sentiment and the model never run
C4_LoadFailureHalts ==
    stats.load_failures > 0 =>
        /\ stats.load_attempts = 1
        /\ model_cache.set
        /\ model_cache.model = "None" /\ model_cache.tokenizer = "None"
        /\ pc \in {"idle", "module", "main"}
        /\ stats.inputs = 0
        /\ stats.predict_calls = 0
        /\ stats.model_calls = 0
        /\ ~result.called /\ ~shown.displayed

\* C4 witness: a later run of the process has ended after the failed load
C4_Witness ==
    /\ stats.load_failures > 0
    /\ runs >= 2
    /\ pc = "idle"
    /\ "Failed to load the model" \in messages

\* C5: when nltk_ready is False, or the NLTK path raised during the call,
\* preprocess_text(x) is basic_preprocess(x), and every word of the cleaned
\* input that only the NLTK list stops is still in the output
C5_FallbackIsBasic ==
    (step = "normalized" /\ (~mode.ready \/ out1.warned)) =>
        /\ out1.value = basic_preprocess(arg)
        /\ arg.type = "str" =>
             \A t \in Range(Split(CleanText(arg.chars))) :
                 Word(t) \in stop_words \ basic_stopwords
                     => t \in Range(Split(out1.value.chars))

\* C5 witness: the NLTK path raised after the text was cleaned, and "not"
\* is in the output
C5_Witness ==
    /\ step = "normalized"
    /\ mode.ready /\ out1.warned
    /\ arg.type = "str" /\ arg.chars # CleanText(arg.chars)
    /\ <<"n","o","t">> \in Range(Split(out1.value.chars))

\* C6: normalizing the output of a normalization again, in the same mode,
\* changes nothing
C6_Idempotent ==
    step = "renormalized" => out2.value = out1.value

\* C6 witness: a text that the first normalization changed and did not empty
C6_Witness ==
    /\ step = "renormalized"
    /\ arg.type = "str"
    /\ out1.value.chars # <<>>
    /\ out1.value.chars # arg.chars
    /\ out1.via = "NLTK"

\* the stopword set of the strategy that produced a result
StopsetOf(via) == IF via = "NLTK" THEN stop_words ELSE basic_stopwords

\* C7 as claimed: the output tokens are, in order, tokens of the cleaned
\* input split on whitespace, none of them a stopword of the mode; the
\* spec's scenario text gives "q earnings beat expectations"
C7_TokensOfWhitespaceSplit ==
    (step = "normalized" /\ arg.type = "str") =>
        LET outTokens == Split(out1.value.chars)
        IN  /\ IsSubsequence(outTokens, Split(CleanText(arg.chars)))
            /\ \A t \in Range(outTokens) : Word(t) \notin StopsetOf(out1.via)
            /\ arg = PyStr(Scenario) =>
                   Word(out1.value.chars) = "q earnings beat expectations"

\* C7 as amended: the output tokens are, in order, tokens that the tokenizer
\* of the producing mode gives on the cleaned input (str.split in basic
\* mode, word_tokenize in NLTK mode), none of them a stopword of that mode;
\* the spec's scenario text gives "q earnings beat expectations"
C7_TokensOfModeTokenizer ==
    (step = "normalized" /\ arg.type = "str") =>
        LET outTokens == Split(out1.value.chars)
            cleaned == CleanText(arg.chars)
            inTokens == IF out1.via = "NLTK" THEN word_tokenize(cleaned)
                        ELSE Split(cleaned)
        IN  /\ IsSubsequence(outTokens, inTokens)
            /\ \A t \in Range(outTokens) : Word(t) \notin StopsetOf(out1.via)
            /\ arg = PyStr(Scenario) =>
                   Word(out1.value.chars) = "q earnings beat expectations"

\* C7 witness: NLTK mode on "gonna The": the contraction is split, "the" is
\* removed, and the two halves stay in order
C7_Witness ==
    /\ step = "normalized"
    /\ Word(arg.chars) = "gonna The"
    /\ out1.via = "NLTK"
    /\ Word(out1.value.chars) = "gon na"

\* C8: the output holds only a-z and single spaces, with no space at either
\* end; an input without any letter normalizes to the empty string
C8_OutputAlphabet ==
    step = "normalized" =>
        LET o == out1.value.chars
        IN  /\ \A i \in DOMAIN o : o[i] \in Range(LowerLetters) \cup {" "}
            /\ o # <<>> => o[1] # " " /\ o[Len(o)] # " "
            /\ \A i \in 1..(Len(o) - 1) : ~(o[i] = " " /\ o[i + 1] = " ")
            /\ (arg.type = "str" /\ ~HasLetter(arg.chars)) => o = <<>>

\* C8 witness: a non-empty input of digits, punctuation and whitespace only
C8_Witness ==
    /\ step = "normalized"
    /\ arg.type = "str"
    /\ ~HasLetter(arg.chars)
    /\ \E i \in DOMAIN arg.chars : arg.chars[i] = "3"
    /\ \E i \in DOMAIN arg.chars : IsSpace(arg.chars[i])
    /\ out1.value.chars = <<>>

\* C9: when the model ran, the label is "Positive" exactly when class 1 has
\* strictly the larger probability and "Negative/Neutral" otherwise, and the
\* confidence is the probability of that class, between 0 and 1
C9_LabelMatchesArgmax ==
    (step = "predicted" /\ pred.model_called /\ ~pred.raised) =>
        /\ pred.label \in {"Positive", "Negative/Neutral"}
        /\ pred.label = "Positive" <=> pred.probs[2] > pred.probs[1]
        /\ pred.confidence = IF pred.label = "Positive" THEN pred.probs[2]
                             ELSE pred.probs[1]
        /\ pred.confidence >= pred.probs[1]
        /\ pred.confidence >= pred.probs[2]
        /\ pred.confidence \in 0..ProbScale

\* C9 witness: the two classes tie and class 0 is reported
C9_Witness ==
    /\ step = "predicted"
    /\ pred.model_called /\ ~pred.raised
    /\ pred.probs[1] = pred.probs[2]
    /\ pred.label = "Negative/Neutral"

\* C10: the method label of the expander names the strategy that produced
\* the text shown in it
C10_MethodLabelIsTruthful ==
    shown.displayed => (shown.method = "NLTK" <=> shown.via = "NLTK")

====
